---- MODULE Spec2Model ----
(***************************************************************************)
(* Dark/flat indexing and correction engine of Savu                        *)
(* (savu/data/data_structures/data_types/data_plus_darks_and_flats.py).    *)
(*                                                                         *)
(* Conventions                                                             *)
(*   - positions are 0-based as in the source; TLA+ sequences are 1-based, *)
(*     so element p of an array a is a[p + 1];                             *)
(*   - a value that may be None / False in the source is a sequence of     *)
(*     length 0 (None, False) or 1 (the value): <<>> or <<v>>;             *)
(*   - a call's outcome is a record [kind, val, obj]: kind "ret" with the  *)
(*     returned value, or kind "raise" when the call ends in an exception; *)
(*   - a frame of the physical array is identified by one number (the      *)
(*     detector axes are collapsed), see Data.                             *)
(***************************************************************************)
EXTENDS Integers, Sequences, FiniteSets, TLC

VARIABLES
    pc,                    \* lifecycle of the object / call under study
    variant,               \* "ImageKey" | "NoImageKey" | "none"
    image_key,             \* self.image_key
    orig_image_key,        \* NoImageKey.orig_image_key
    supplied,              \* the image_key argument of the constructor
    ignore,                \* the ignore argument of ImageKey.__init__
    shape,                 \* self.shape[proj_dim]
    fscale,                \* self.fscale
    dscale,                \* self.dscale
    flat_updated,          \* self.flat_updated
    dark_updated,          \* self.dark_updated
    dark_flat_slice_list,  \* self.dark_flat_slice_list
    dark_path,             \* NoImageKey.dark_path
    flat_path,             \* NoImageKey.flat_path
    dark_image_key,        \* NoImageKey.dark_image_key
    flat_image_key,        \* NoImageKey.flat_image_key
    preview,               \* data_obj's preview slice list
    axes,                  \* data_obj's axis label -> dimension lookup
    lastOp,                \* name of the last call made
    arg,                   \* arguments of the last call
    result                 \* outcome of the last call

vars ==
    <<pc, variant, image_key, orig_image_key, supplied, ignore, shape, fscale,
      dscale, flat_updated, dark_updated, dark_flat_slice_list, dark_path,
      flat_path, dark_image_key, flat_image_key, preview, axes, lastOp, arg,
      result>>

(***************************************************************************)
(* Bounds of the model.                                                    *)
(***************************************************************************)
\* largest position in an input of the run segmenter
MaxPos == 9
\* largest number of dimensions of a preview slice list
MaxDims == 5
\* length of the label arrays of the index-resolution specification
MaxFrames == 5
\* length of the label arrays of the view specification
ViewFrames == 2

(***************************************************************************)
(* Values.                                                                 *)
(***************************************************************************)
Min(a, b) == IF a <= b THEN a ELSE b

SetMax(S) == CHOOSE x \in S : \A y \in S : y <= x

SetMin(S) == CHOOSE x \in S : \A y \in S : x <= y

\* None and False of the source
Absent == <<>>

Some(x) == <<x>>

NoObj == <<>>

Raise == [kind |-> "raise", val |-> <<>>, obj |-> NoObj]

Ret(v) == [kind |-> "ret", val |-> v, obj |-> NoObj]

NoResult == [kind |-> "none", val |-> <<>>, obj |-> NoObj]

\* slice(None)
SliceAll == [all |-> TRUE, start |-> 0, stop |-> 0]

\* slice(a, b)
Slice(a, b) == [all |-> FALSE, start |-> a, stop |-> b]

\* seq[s] for a slice s: never raises, clips to the sequence
ApplySlice(seq, s) ==
    IF s.all THEN seq
    ELSE SubSeq(seq, Min(s.start, Len(seq)) + 1, Min(s.stop, Len(seq)))

\* the axis of the label array in the physical array
proj_dim == 0

\* contents of frame p of the physical array
Data(p) == p + 1

(***************************************************************************)
(* np.where(self.image_key == key)[0]: the positions labelled key, in      *)
(* ascending order; empty when image_key is None.                          *)
(***************************************************************************)
RECURSIVE WhereFrom(_, _, _)
WhereFrom(a, key, i) ==
    IF i > Len(a) THEN <<>>
    ELSE (IF a[i] = key THEN <<i - 1>> ELSE <<>>) \o WhereFrom(a, key, i + 1)

np_where(ik, key) == IF ik = Absent THEN <<>> ELSE WhereFrom(ik[1], key, 1)

(***************************************************************************)
(* Run segmenter.                                                          *)
(***************************************************************************)
\* np.where(np.diff(index) > gap)[0] + 1
RECURSIVE DiffBreaks(_, _, _)
DiffBreaks(index, gap, i) ==
    IF i >= Len(index) THEN <<>>
    ELSE (IF index[i + 1] - index[i] > gap THEN <<i>> ELSE <<>>)
             \o DiffBreaks(index, gap, i + 1)

\* end = np.array(start[1:] + [len(index)]) - 1
RunEnds(index, start) ==
    [j \in 1..Len(start) |-> (Tail(start) \o <<Len(index)>>)[j] - 1]

\* start, end, index[start], index[end]
RunRecord(index, start, end) ==
    [start |-> start,
     end |-> end,
     start_entry |-> [j \in 1..Len(start) |-> index[start[j] + 1]],
     end_entry |-> [j \in 1..Len(end) |-> index[end[j] + 1]]]

RunsFrom(index, start) == RunRecord(index, start, RunEnds(index, start))

SegmentWith(index, gap) ==
    IF Len(index) = 0 THEN Raise    \* index[[0]] of an empty array
    ELSE Ret(RunsFrom(index, <<0>> \o DiffBreaks(index, gap, 1)))

\* a break wherever two positions differ at all
get_start_end_idx_every_step(index) == SegmentWith(index, 0)

_get_start_end_idx(index) == SegmentWith(index, 1)

(***************************************************************************)
(* Slice-list reducer.                                                     *)
(***************************************************************************)
\* del lst[d]
DelAt(lst, d) == SubSeq(lst, 1, d) \o SubSeq(lst, d + 2, Len(lst))

\* for dim in sorted(list(remove), reverse=True): del slice_list[dim]
RECURSIVE DelDescending(_, _)
DelDescending(lst, remove) ==
    IF remove = {} THEN lst
    ELSE DelDescending(DelAt(lst, SetMax(remove)), remove \ {SetMax(remove)})

\* the same loop over sorted(list(remove)): later dimensions have moved
RECURSIVE DelAscending(_, _)
DelAscending(lst, remove) ==
    IF remove = {} THEN lst
    ELSE DelAscending(DelAt(lst, Min(SetMin(remove), Len(lst) - 1)),
                      remove \ {SetMin(remove)})

\* lines 75-83, on the slice list with its rotation entry replaced
RemoveAxes(slice_list, ax, descending) ==
    IF Len(slice_list) > 3
    THEN IF descending
         THEN DelDescending(slice_list,
                            (0..(Len(slice_list) - 1))
                                \ {ax.rot, ax.detX, ax.detY})
         ELSE DelAscending(slice_list,
                           (0..(Len(slice_list) - 1))
                               \ {ax.rot, ax.detX, ax.detY})
    ELSE slice_list

ReduceWith(pv, ax, descending) ==
    IF pv = Absent THEN Raise
    ELSE IF ax.rot >= Len(pv[1]) THEN Raise
    ELSE Ret(RemoveAxes([pv[1] EXCEPT ![ax.rot + 1] = SliceAll], ax,
                        descending))

get_dark_flat_slice_list_ascending(pv, ax) == ReduceWith(pv, ax, FALSE)

get_dark_flat_slice_list(pv, ax) == ReduceWith(pv, ax, TRUE)

(***************************************************************************)
(* State of the variables a specification does not use.                    *)
(***************************************************************************)
NoView ==
    /\ variant = "none"
    /\ image_key = Absent
    /\ orig_image_key = Absent
    /\ supplied = Absent
    /\ ignore = [kind |-> "none", batches |-> <<>>]
    /\ shape = 0
    /\ fscale = 1
    /\ dscale = 1
    /\ flat_updated = Absent
    /\ dark_updated = Absent
    /\ dark_flat_slice_list = Absent
    /\ dark_path = Absent
    /\ flat_path = Absent
    /\ dark_image_key = Absent
    /\ flat_image_key = Absent

viewVars ==
    <<variant, image_key, orig_image_key, supplied, ignore, shape, fscale,
      dscale, flat_updated, dark_updated, dark_flat_slice_list, dark_path,
      flat_path, dark_image_key, flat_image_key>>

NoAxes == [rot |-> 0, detX |-> 0, detY |-> 0]

(***************************************************************************)
(* Specification of the run segmenter: every strictly increasing sequence  *)
(* of positions 0..MaxPos is segmented once.                               *)
(***************************************************************************)
RECURSIVE SortedSeq(_)
SortedSeq(S) ==
    IF S = {} THEN <<>> ELSE <<SetMin(S)>> \o SortedSeq(S \ {SetMin(S)})

IncreasingSeqs == {SortedSeq(S) : S \in SUBSET (0..MaxPos)}

InitSeg ==
    /\ NoView
    /\ pc = "in"
    /\ preview = Absent
    /\ axes = NoAxes
    /\ lastOp = "none"
    /\ arg \in IncreasingSeqs
    /\ result = NoResult

Segment ==
    /\ pc = "in"
    /\ pc' = "out"
    /\ lastOp' = "_get_start_end_idx"
    /\ result' = _get_start_end_idx(arg)
    /\ UNCHANGED <<viewVars, preview, axes, arg>>

NextSeg == Segment

SpecSeg == InitSeg /\ [][NextSeg]_vars

(***************************************************************************)
(* Specification of the slice-list reducer: every preview slice list of    *)
(* 1..MaxDims dimensions over two distinguishable slices, with every       *)
(* placement of the rotation and detector axes, is reduced once.           *)
(***************************************************************************)
SliceTokens == {Slice(0, 1), Slice(1, 2)}

AxisLookups(n) ==
    IF n < 3 THEN {[rot |-> r, detX |-> r, detY |-> r] : r \in 0..(n - 1)}
    ELSE {a \in [rot : 0..(n - 1), detX : 0..(n - 1), detY : 0..(n - 1)] :
             a.rot # a.detX /\ a.rot # a.detY /\ a.detX # a.detY}

InitSlice ==
    /\ NoView
    /\ pc = "in"
    /\ \E n \in 1..MaxDims :
          /\ preview \in {Some(l) : l \in [1..n -> SliceTokens]}
          /\ axes \in AxisLookups(n)
    /\ lastOp = "none"
    /\ arg = <<>>
    /\ result = NoResult

Reduce ==
    /\ pc = "in"
    /\ pc' = "out"
    /\ lastOp' = "get_dark_flat_slice_list"
    /\ result' = get_dark_flat_slice_list(preview, axes)
    /\ UNCHANGED <<viewVars, preview, axes, arg>>

NextSlice == Reduce

SpecSlice == InitSlice /\ [][NextSlice]_vars

(***************************************************************************)
(* Label index resolver.                                                   *)
(***************************************************************************)
\* the attributes an instance of DataWithDarksAndFlats or of a subclass has;
\* a method named __m in the body of class C is stored as _C__m
DefinedAttributes ==
    {"_copy_base", "get_image_key", "_get_image_key_data_shape",
     "_getitem_imagekey", "_getitem_noimagekey", "__setitem__",
     "get_dark_flat_slice_list", "_set_scale", "set_flat_scale",
     "set_dark_scale", "get_shape", "dark_mean", "flat_mean", "_calc_mean",
     "get_index", "_DataWithDarksAndFlats__get_preview_index",
     "_DataWithDarksAndFlats__get_reduced_index", "_get_start_end_idx",
     "_DataWithDarksAndFlats__get_data", "dark_image_key_data",
     "flat_image_key_data", "update_dark", "update_flat",
     "_ImageKey__ignore_image_key_entries", "dark", "flat",
     "_set_dark_and_flat", "_copy", "_set_flat_path", "_set_dark_path"}

HasAttr(name) == name \in DefinedAttributes

\* lines 140-145 for the runs seg of index: the range of index from the
\* start of the run that ends at the last label position before the window
\* to the end of the run that ends at the first label position after it; an
\* empty selection is no index and no slice bound
RangeOfRuns(index, data_entries, seg) ==
    LET less == {i \in 1..Len(index) : index[i] < data_entries[1]}
        greater == {i \in 1..Len(index) :
                       index[i] > data_entries[Len(data_entries)]}
    IN  IF less = {} \/ greater = {} THEN Raise
        ELSE LET s == {j \in 1..Len(seg.end_entry) :
                          seg.end_entry[j] = index[SetMax(less)]}
                 e == {j \in 1..Len(seg.end_entry) :
                          seg.end_entry[j] = index[SetMin(greater)]}
             IN  IF s = {} \/ e = {} THEN Raise
                 ELSE Ret(SubSeq(index, seg.start[SetMin(s)] + 1,
                                 seg.end[SetMin(e)] + 1))

\* lines 137-145
ReducedRange(index, data_entries) ==
    IF Len(index) = 0 \/ Len(data_entries) = 0 THEN Raise
    ELSE RangeOfRuns(index, data_entries, _get_start_end_idx(index).val)

__get_reduced_index(ik, key, slice_list) ==
    IF key = 0 THEN Ret(ApplySlice(np_where(ik, 0), slice_list))
    \* self.__get_start_end_idx: AttributeError when no such attribute
    ELSE IF ~HasAttr("_DataWithDarksAndFlats__get_start_end_idx") THEN Raise
    ELSE ReducedRange(np_where(ik, key),
                      ApplySlice(np_where(ik, 0), slice_list))

\* the body of the try of __get_preview_index
PreviewAttempt(ik, pv, key) ==
    IF pv = Absent THEN Raise
    ELSE IF proj_dim >= Len(pv[1]) THEN Raise
    ELSE __get_reduced_index(ik, key, pv[1][proj_dim + 1])

\* except: return np.where(self.image_key == key)[0]
OrFullIndex(r, ik, key) ==
    IF r.kind = "raise" THEN Ret(np_where(ik, key)) ELSE r

\* the exception is let through
get_preview_index_propagates(ik, pv, key) == PreviewAttempt(ik, pv, key)

__get_preview_index(ik, pv, key) ==
    OrFullIndex(PreviewAttempt(ik, pv, key), ik, key)

\* the full flag is not looked at
get_index_always_previewed(ik, pv, key, full) ==
    __get_preview_index(ik, pv, key)

get_index(ik, pv, key, full) ==
    IF full THEN Ret(np_where(ik, key)) ELSE __get_preview_index(ik, pv, key)

(***************************************************************************)
(* Ignore-batch marking.                                                   *)
(***************************************************************************)
\* image_key[lo:hi + 1] = 3
AssignRange(a, lo, hi) ==
    [p \in 1..Len(a) |-> IF lo <= p - 1 /\ p - 1 <= hi THEN 3 ELSE a[p]]

\* for batch in ignore: self.image_key[start[batch-1]:end[batch-1]+1] = 3
RECURSIVE MarkBatches(_, _, _, _)
MarkBatches(a, start, end, batches) ==
    IF batches = <<>> THEN a
    ELSE MarkBatches(AssignRange(a, start[Head(batches)], end[Head(batches)]),
                     start, end, Tail(batches))

\* start, end, a, a = ...: the run boundaries as indices into the flat
\* positions instead of as positions
MarkRunsByIndex(ik, seg, ign) ==
    IF seg.kind = "raise" THEN Raise
    ELSE Ret(Some(MarkBatches(ik[1], seg.val.start, seg.val.end, ign.batches)))

\* lines 203-207 for the runs seg of the flat positions
MarkRuns(ik, seg, ign) ==
    IF seg.kind = "raise" THEN Raise
    ELSE Ret(Some(MarkBatches(ik[1], seg.val.start_entry, seg.val.end_entry,
                              ign.batches)))

__ignore_image_key_entries(ik, pv, ign) ==
    MarkRuns(ik, _get_start_end_idx(get_index(ik, pv, 1, FALSE).val), ign)

\* the ignore argument: None, one batch number, or a list of batch numbers
NoIgnore == [kind |-> "none", batches |-> <<>>]

\* number of runs of flat frames of label array a
FlatRuns(a) ==
    Cardinality({q \in 1..Len(a) : a[q] = 1 /\ (q = 1 \/ a[q - 1] # 1)})

\* the ignore arguments within the contract for label array a
IgnoreArgs(a) ==
    {NoIgnore}
        \cup {[kind |-> "single", batches |-> <<b>>] : b \in 1..FlatRuns(a)}
        \cup {[kind |-> "list", batches |-> <<x[1], x[2]>>] :
                 x \in {y \in (1..FlatRuns(a)) \X (1..FlatRuns(a)) :
                           y[1] # y[2]}}

(***************************************************************************)
(* Specification of index resolution on an Embedded-Key view: every label  *)
(* array of MaxFrames frames, every ignore argument within the contract,   *)
(* a preview window from IdxPreviews, then any get_index calls.            *)
(***************************************************************************)
ViewAxes == [rot |-> 0, detX |-> 2, detY |-> 1]

LabelArrays(n) == [1..n -> 0..3]

Windows == {SliceAll, Slice(0, 1), Slice(1, 3), Slice(0, 0)}

IdxPreviews ==
    {Absent} \cup {Some(<<w, SliceAll, SliceAll>>) : w \in Windows}

\* the fields DataWithDarksAndFlats.__init__ sets
BaseInit(key) ==
    /\ image_key = key
    /\ supplied = key
    /\ ignore = NoIgnore
    /\ shape = 0
    /\ fscale = 1
    /\ dscale = 1
    /\ flat_updated = Absent
    /\ dark_updated = Absent
    /\ dark_flat_slice_list = Absent

InitIdx ==
    /\ pc = "new"
    /\ variant = "ImageKey"
    /\ \E a \in LabelArrays(MaxFrames) : BaseInit(Some(a))
    /\ orig_image_key = Absent
    /\ dark_path = Absent
    /\ flat_path = Absent
    /\ dark_image_key = Absent
    /\ flat_image_key = Absent
    /\ preview \in IdxPreviews
    /\ axes = ViewAxes
    /\ lastOp = "none"
    /\ arg = <<>>
    /\ result = NoResult

\* ImageKey.__init__ after the base constructor
ImageKey_init ==
    /\ pc = "new"
    /\ variant = "ImageKey"
    /\ \E ign \in IgnoreArgs(image_key[1]) :
          /\ ignore' = ign
          /\ image_key' =
                 IF ign.kind = "none" THEN image_key
                 ELSE __ignore_image_key_entries(image_key, preview, ign).val
    /\ shape' = Len(get_index(image_key, preview, 0, FALSE).val)
    /\ pc' = "ready"
    /\ lastOp' = "__init__"
    /\ arg' = <<>>
    /\ result' = Ret(<<>>)
    /\ UNCHANGED <<variant, orig_image_key, supplied, fscale, dscale,
                   flat_updated, dark_updated, dark_flat_slice_list, dark_path,
                   flat_path, dark_image_key, flat_image_key, preview, axes>>

GetIndex ==
    /\ pc = "ready"
    /\ \E key \in 0..3, full \in BOOLEAN :
          /\ arg' = [key |-> key, full |-> full]
          /\ result' = get_index(image_key, preview, key, full)
    /\ lastOp' = "get_index"
    /\ UNCHANGED <<pc, viewVars, preview, axes>>

NextIdx == ImageKey_init \/ GetIndex

SpecIdx == InitIdx /\ [][NextIdx]_vars

(***************************************************************************)
(* Dark/flat corrector.                                                    *)
(***************************************************************************)
\* bool(x) of a stored override: False and an empty array are false, an
\* array of one element is its element's truth, an array of more elements
\* has no truth value (ValueError)
Truth(x) ==
    IF x = Absent THEN "false"
    ELSE IF Len(x[1]) = 0 THEN "false"
    ELSE IF Len(x[1]) = 1 THEN (IF x[1][1] # 0 THEN "true" ELSE "false")
    ELSE "raise"

\* frames * scale
Scale(frames, s) == [i \in 1..Len(frames) |-> frames[i] * s]

\* lines 154-164: the frames of label key; list(None) is a TypeError; the
\* slice list selects all along the rotation axis
\* self.data at positions index of the projection axis
Frames(index) == [i \in 1..Len(index) |-> Data(index[i])]

__get_data(ik, pv, dfsl, key) ==
    IF dfsl = Absent THEN Raise
    ELSE Ret(Frames(get_index(ik, pv, key, FALSE).val))

\* outcome o with its frames times s
Times(o, s) == IF o.kind = "ret" THEN Ret(Scale(o.val, s)) ELSE o

dark_image_key_data(ik, pv, dfsl, ds) == Times(__get_data(ik, pv, dfsl, 2), ds)

flat_image_key_data(ik, pv, dfsl, fs) == Times(__get_data(ik, pv, dfsl, 1), fs)

\* ImageKey.dark() and ImageKey.flat() with slice list dfsl and scale ds / fs
ImageKey_dark_outcome(dfsl, ds) ==
    CASE Truth(dark_updated) = "raise" -> Raise
      [] Truth(dark_updated) = "true" -> Ret(dark_updated[1])
      [] OTHER -> dark_image_key_data(image_key, preview, dfsl, ds)

ImageKey_flat_outcome(dfsl, fs) ==
    CASE Truth(flat_updated) = "raise" -> Raise
      [] Truth(flat_updated) = "true" -> Ret(flat_updated[1])
      [] OTHER -> flat_image_key_data(image_key, preview, dfsl, fs)

\* self.dark_path[self.dark_flat_slice_list] * scale: None has no items; an
\* index of None is a new axis of a numpy array and no selection of an h5py
\* dataset, and the source fixes neither type
PathRead(path, dfsl, s) ==
    IF path = Absent THEN {Raise}
    ELSE IF dfsl = Absent THEN {Raise, Ret(Scale(path[1], s))}
    ELSE {Ret(Scale(path[1], s))}

\* self.image_key = key; o = ..._image_key_data();
\* self.image_key = self.orig_image_key; return o
Borrowed(o, key) ==
    IF o.kind = "raise" THEN [res |-> Raise, ik |-> key]
    ELSE [res |-> o, ik |-> orig_image_key]

\* NoImageKey.dark() on label array ik: the possible outcomes and the label
\* array the call leaves in self.image_key
NoImageKey_dark_outcomes(ik, dfsl, ds) ==
    CASE Truth(dark_updated) = "raise" -> {[res |-> Raise, ik |-> ik]}
      [] Truth(dark_updated) = "true" ->
             {[res |-> Ret(dark_updated[1]), ik |-> ik]}
      [] OTHER ->
             IF dark_image_key # Absent
             THEN {Borrowed(dark_image_key_data(dark_image_key, preview,
                                                dfsl, ds),
                            dark_image_key)}
             ELSE {[res |-> r, ik |-> ik] : r \in PathRead(dark_path, dfsl, ds)}

\* NoImageKey.flat(): a set override is called, and an array is not callable
NoImageKey_flat_outcomes(ik, dfsl, fs) ==
    CASE Truth(flat_updated) = "raise" -> {[res |-> Raise, ik |-> ik]}
      [] Truth(flat_updated) = "true" -> {[res |-> Raise, ik |-> ik]}
      [] OTHER ->
             IF flat_image_key # Absent
             THEN {Borrowed(flat_image_key_data(flat_image_key, preview,
                                                dfsl, fs),
                            flat_image_key)}
             ELSE {[res |-> r, ik |-> ik] : r \in PathRead(flat_path, dfsl, fs)}

(***************************************************************************)
(* Operations of the two views.                                            *)
(***************************************************************************)
\* NoImageKey.__init__ after the base constructor
NoImageKey_init ==
    /\ pc = "new"
    /\ variant = "NoImageKey"
    /\ orig_image_key' = image_key
    /\ shape' = IF image_key # Absent
                THEN Len(get_index(image_key, preview, 0, FALSE).val)
                ELSE ViewFrames
    /\ pc' = "ready"
    /\ lastOp' = "__init__"
    /\ arg' = <<>>
    /\ result' = Ret(<<>>)
    /\ UNCHANGED <<variant, image_key, supplied, ignore, fscale, dscale,
                   flat_updated, dark_updated, dark_flat_slice_list, dark_path,
                   flat_path, dark_image_key, flat_image_key, preview, axes>>

\* lines 221-224 with slice list dfsl: whether a mean raises
ImageKey_means(dfsl) ==
    IF /\ Len(get_index(image_key, preview, 2, FALSE).val) > 0
       /\ ImageKey_dark_outcome(dfsl, dscale).kind = "raise"
    THEN "raise"
    ELSE IF /\ Len(get_index(image_key, preview, 1, FALSE).val) > 0
            /\ ImageKey_flat_outcome(dfsl, fscale).kind = "raise"
    THEN "raise"
    ELSE "ret"

\* ImageKey._set_dark_and_flat with obj as the call's other output
ImageKey_setup(op, obj) ==
    /\ pc = "ready"
    /\ variant = "ImageKey"
    /\ \E sl \in {get_dark_flat_slice_list(preview, axes)} :
          IF sl.kind = "raise"
          THEN /\ result' = [kind |-> "raise", val |-> <<>>, obj |-> obj]
               /\ UNCHANGED dark_flat_slice_list
          ELSE /\ dark_flat_slice_list' = Some(sl.val)
               /\ result' = [kind |-> ImageKey_means(Some(sl.val)),
                             val |-> <<>>,
                             obj |-> obj]
    /\ lastOp' = op
    /\ arg' = <<>>
    /\ UNCHANGED <<pc, variant, image_key, orig_image_key, supplied, ignore,
                   shape, fscale, dscale, flat_updated, dark_updated, dark_path,
                   flat_path, dark_image_key, flat_image_key, preview, axes>>

\* NoImageKey._set_dark_and_flat (of a class that has no Map3dto4dh5 base)
NoImageKey_setup(op, obj) ==
    /\ pc = "ready"
    /\ variant = "NoImageKey"
    /\ \E sl \in {get_dark_flat_slice_list(preview, axes)} :
          IF sl.kind = "raise"
          THEN /\ result' = [kind |-> "raise", val |-> <<>>, obj |-> obj]
               /\ UNCHANGED <<dark_flat_slice_list, image_key>>
          ELSE /\ dark_flat_slice_list' = Some(sl.val)
               /\ \E d \in NoImageKey_dark_outcomes(image_key, Some(sl.val),
                                                    dscale) :
                     IF d.res.kind = "raise"
                     THEN /\ image_key' = d.ik
                          /\ result' =
                                 [kind |-> "raise", val |-> <<>>, obj |-> obj]
                     ELSE \E f \in NoImageKey_flat_outcomes(d.ik, Some(sl.val),
                                                            fscale) :
                             /\ image_key' = f.ik
                             /\ result' = [kind |-> f.res.kind,
                                           val |-> <<>>,
                                           obj |-> obj]
    /\ lastOp' = op
    /\ arg' = <<>>
    /\ UNCHANGED <<pc, variant, orig_image_key, supplied, ignore, shape,
                   fscale, dscale, flat_updated, dark_updated, dark_path,
                   flat_path, dark_image_key, flat_image_key, preview, axes>>

ImageKey_set_dark_and_flat == ImageKey_setup("_set_dark_and_flat", NoObj)

NoImageKey_set_dark_and_flat == NoImageKey_setup("_set_dark_and_flat", NoObj)

\* _copy(new_obj): the fields new_obj receives, then setup of self
ImageKey_copy ==
    ImageKey_setup("_copy", Some([flat_updated |-> flat_updated,
                                  dark_updated |-> dark_updated]))

NoImageKey_copy ==
    NoImageKey_setup("_copy", Some([dark_path |-> dark_path,
                                    flat_path |-> flat_path,
                                    flat_image_key |-> flat_image_key,
                                    dark_image_key |-> dark_image_key,
                                    flat_updated |-> flat_updated,
                                    dark_updated |-> dark_updated]))

accessorUnchanged ==
    <<pc, variant, orig_image_key, supplied, ignore, shape, fscale, dscale,
      flat_updated, dark_updated, dark_flat_slice_list, dark_path, flat_path,
      dark_image_key, flat_image_key, preview, axes>>

ImageKey_dark ==
    /\ pc = "ready"
    /\ variant = "ImageKey"
    /\ result' = ImageKey_dark_outcome(dark_flat_slice_list, dscale)
    /\ lastOp' = "dark"
    /\ arg' = <<>>
    /\ UNCHANGED <<accessorUnchanged, image_key>>

ImageKey_flat ==
    /\ pc = "ready"
    /\ variant = "ImageKey"
    /\ result' = ImageKey_flat_outcome(dark_flat_slice_list, fscale)
    /\ lastOp' = "flat"
    /\ arg' = <<>>
    /\ UNCHANGED <<accessorUnchanged, image_key>>

NoImageKey_dark ==
    /\ pc = "ready"
    /\ variant = "NoImageKey"
    /\ \E d \in NoImageKey_dark_outcomes(image_key, dark_flat_slice_list, dscale) :
          /\ result' = d.res
          /\ image_key' = d.ik
    /\ lastOp' = "dark"
    /\ arg' = <<>>
    /\ UNCHANGED accessorUnchanged

NoImageKey_flat ==
    /\ pc = "ready"
    /\ variant = "NoImageKey"
    /\ \E f \in NoImageKey_flat_outcomes(image_key, dark_flat_slice_list, fscale) :
          /\ result' = f.res
          /\ image_key' = f.ik
    /\ lastOp' = "flat"
    /\ arg' = <<>>
    /\ UNCHANGED accessorUnchanged

\* the override frames a caller supplies: one element, several elements
OverrideFrames == {<<3>>, <<3, 4>>}

\* update_flat also forgets the slice list
update_flat_invalidates ==
    /\ pc = "ready"
    /\ \E data \in OverrideFrames :
          /\ flat_updated' = Some(data)
          /\ arg' = data
    /\ fscale' = 1
    /\ dark_flat_slice_list' = Absent
    /\ lastOp' = "update_flat"
    /\ result' = Ret(<<>>)
    /\ UNCHANGED <<pc, variant, image_key, orig_image_key, supplied, ignore,
                   shape, dscale, dark_updated, dark_path, flat_path,
                   dark_image_key, flat_image_key, preview, axes>>

update_dark ==
    /\ pc = "ready"
    /\ \E data \in OverrideFrames :
          /\ dark_updated' = Some(data)
          /\ arg' = data
    /\ dscale' = 1
    /\ lastOp' = "update_dark"
    /\ result' = Ret(<<>>)
    /\ UNCHANGED <<pc, variant, image_key, orig_image_key, supplied, ignore,
                   shape, fscale, flat_updated, dark_flat_slice_list, dark_path,
                   flat_path, dark_image_key, flat_image_key, preview, axes>>

update_flat ==
    /\ pc = "ready"
    /\ \E data \in OverrideFrames :
          /\ flat_updated' = Some(data)
          /\ arg' = data
    /\ fscale' = 1
    /\ lastOp' = "update_flat"
    /\ result' = Ret(<<>>)
    /\ UNCHANGED <<pc, variant, image_key, orig_image_key, supplied, ignore,
                   shape, dscale, dark_updated, dark_flat_slice_list, dark_path,
                   flat_path, dark_image_key, flat_image_key, preview, axes>>

\* the scales a caller sets; float(s) of a whole number s is s
Scales == {1, 2}

set_flat_scale ==
    /\ pc = "ready"
    /\ \E s \in Scales :
          /\ fscale' = s
          /\ arg' = s
    /\ lastOp' = "set_flat_scale"
    /\ result' = Ret(<<>>)
    /\ UNCHANGED <<pc, variant, image_key, orig_image_key, supplied, ignore,
                   shape, dscale, flat_updated, dark_updated,
                   dark_flat_slice_list, dark_path, flat_path, dark_image_key,
                   flat_image_key, preview, axes>>

set_dark_scale ==
    /\ pc = "ready"
    /\ \E s \in Scales :
          /\ dscale' = s
          /\ arg' = s
    /\ lastOp' = "set_dark_scale"
    /\ result' = Ret(<<>>)
    /\ UNCHANGED <<pc, variant, image_key, orig_image_key, supplied, ignore,
                   shape, fscale, flat_updated, dark_updated,
                   dark_flat_slice_list, dark_path, flat_path, dark_image_key,
                   flat_image_key, preview, axes>>

\* the frames of the external dark and flat arrays
DarkFrames == <<5>>

FlatFrames == <<7>>

\* the label array of a label-bearing reference: a dark frame, then flats
RefKey == [i \in 1..ViewFrames |-> IF i = 1 THEN 2 ELSE 1]

\* _set_dark_path(path, imagekey=False)
_set_dark_path ==
    /\ pc = "ready"
    /\ variant = "NoImageKey"
    /\ dark_image_key' \in {Absent, Some(RefKey)}
    /\ dark_path' = Some(DarkFrames)
    /\ lastOp' = "_set_dark_path"
    /\ arg' = <<>>
    /\ result' = Ret(<<>>)
    /\ UNCHANGED <<pc, variant, image_key, orig_image_key, supplied, ignore,
                   shape, fscale, dscale, flat_updated, dark_updated,
                   dark_flat_slice_list, flat_path, flat_image_key, preview,
                   axes>>

\* _set_flat_path(path, imagekey=False)
_set_flat_path ==
    /\ pc = "ready"
    /\ variant = "NoImageKey"
    /\ flat_image_key' \in {Absent, Some(RefKey)}
    /\ flat_path' = Some(FlatFrames)
    /\ lastOp' = "_set_flat_path"
    /\ arg' = <<>>
    /\ result' = Ret(<<>>)
    /\ UNCHANGED <<pc, variant, image_key, orig_image_key, supplied, ignore,
                   shape, fscale, dscale, flat_updated, dark_updated,
                   dark_flat_slice_list, dark_path, dark_image_key, preview,
                   axes>>

\* the preview windows the parent dataset takes
ViewPreviews ==
    {Some(<<SliceAll, SliceAll, SliceAll>>),
     Some(<<Slice(0, 1), Slice(0, 1), SliceAll>>)}

\* the parent dataset's preview changes
SetPreview ==
    /\ pc = "ready"
    /\ preview' \in ViewPreviews \ {preview}
    /\ lastOp' = "set_preview"
    /\ arg' = <<>>
    /\ result' = NoResult
    /\ UNCHANGED <<pc, viewVars, axes>>

(***************************************************************************)
(* Specification of the two views: every label array of ViewFrames frames  *)
(* (or none, for the External-Reference view), then any calls.             *)
(***************************************************************************)
\* the label arrays an External-Reference view is built with: data only,
\* data after a leading flat, data before a trailing dark
ReferenceViewArrays ==
    {[i \in 1..ViewFrames |-> 0],
     [i \in 1..ViewFrames |-> IF i = 1 THEN 1 ELSE 0],
     [i \in 1..ViewFrames |-> IF i = ViewFrames THEN 2 ELSE 0]}

InitView ==
    /\ pc = "new"
    /\ variant \in {"ImageKey", "NoImageKey"}
    /\ \E k \in IF variant = "ImageKey"
                 THEN {Some(a) : a \in LabelArrays(ViewFrames)}
                 ELSE {Absent} \cup {Some(a) : a \in ReferenceViewArrays} :
          BaseInit(k)
    /\ orig_image_key = Absent
    /\ dark_path = Absent
    /\ flat_path = Absent
    /\ dark_image_key = Absent
    /\ flat_image_key = Absent
    /\ preview \in ViewPreviews
    /\ axes = ViewAxes
    /\ lastOp = "none"
    /\ arg = <<>>
    /\ result = NoResult

Next ==
    \/ ImageKey_init
    \/ NoImageKey_init
    \/ ImageKey_set_dark_and_flat
    \/ NoImageKey_set_dark_and_flat
    \/ ImageKey_copy
    \/ NoImageKey_copy
    \/ ImageKey_dark
    \/ ImageKey_flat
    \/ NoImageKey_dark
    \/ NoImageKey_flat
    \/ update_dark
    \/ update_flat
    \/ set_dark_scale
    \/ set_flat_scale
    \/ _set_dark_path
    \/ _set_flat_path
    \/ SetPreview

Spec == InitView /\ [][Next]_vars

(***************************************************************************)
(* Properties of the run segmenter, the slice-list reducer and index       *)
(* resolution.                                                             *)
(***************************************************************************)
\* the positions of label k in label array a
Labelled(a, k) == {p \in 0..(Len(a) - 1) : a[p + 1] = k}

\* first and last position of the run of S that holds p
RunStart(S, p) == SetMin({q \in 0..p : \A x \in q..p : x \in S})

RunEnd(S, p, n) == SetMax({q \in p..n : \A x \in p..q : x \in S})

\* the data positions the preview window selects
WindowedData == ApplySlice(np_where(image_key, 0), preview[1][proj_dim + 1])

\* a frame of label k lies before the first and after the last windowed
\* data position
BracketExists(k) ==
    /\ Len(WindowedData) > 0
    /\ \E p \in Labelled(image_key[1], k) : p < WindowedData[1]
    /\ \E p \in Labelled(image_key[1], k) : p > WindowedData[Len(WindowedData)]

\* the positions of label k from the start of the run that precedes the
\* window to the end of the run that follows it
Bracket(k) ==
    LET S == Labelled(image_key[1], k)
        before == SetMax({p \in S : p < WindowedData[1]})
        after == SetMin({p \in S : p > WindowedData[Len(WindowedData)]})
    IN  SortedSeq({p \in S : /\ RunStart(S, before) <= p
                             /\ p <= RunEnd(S, after, Len(image_key[1]))})

\* C1: with a preview window active and label # 0, get_index(label) returns
\* exactly the positions of that label from the start of the run preceding
\* the first windowed data position through the end of the run following the
\* last windowed data position.
C1_BracketingRuns ==
    (/\ lastOp = "get_index"
     /\ ~arg.full
     /\ arg.key # 0
     /\ preview # Absent
     /\ BracketExists(arg.key))
        => (result.kind = "ret" /\ result.val = Bracket(arg.key))

\* the run number (1-based, in position order) of flat position p of a
FlatRunNumber(a, p) ==
    Cardinality({q \in 1..p : a[q] = 1 /\ (q = 1 \/ a[q - 1] # 1)})

\* the positions (1-based) of the flat runs the ignore argument selects
Ignored ==
    {p \in 1..Len(supplied[1]) :
        /\ supplied[1][p] = 1
        /\ \E i \in 1..Len(ignore.batches) :
              ignore.batches[i] = FlatRunNumber(supplied[1], p)}

\* C3: construction with ignore batches relabels to 3 exactly the frames of
\* the selected flat runs, numbered over the labels as supplied, leaves every
\* other label unchanged, and no later get_index(1, ...) result holds any of
\* those positions.
C3_IgnoreBatches ==
    (pc = "ready" /\ ignore.kind # "none")
        => /\ image_key = Some([p \in 1..Len(supplied[1]) |->
                                   IF p \in Ignored THEN 3 ELSE supplied[1][p]])
           /\ (lastOp = "get_index" /\ arg.key = 1)
                  => \A i \in 1..Len(result.val) : result.val[i] + 1 \notin Ignored

C3_Witness ==
    /\ pc = "ready"
    /\ ignore = [kind |-> "list", batches |-> <<2, 1>>]
    /\ supplied = Some(<<1, 0, 1, 1, 2>>)
    /\ image_key = Some(<<3, 0, 3, 3, 2>>)
    /\ lastOp = "get_index"
    /\ arg.key = 1
    /\ result.val = <<>>

\* C6: the reduced slice list is, for more than 3 dimensions, the preview
\* entries of the rotation and detector dimensions in ascending dimension
\* order with the rotation entry replaced by select-all, and otherwise the
\* preview list with only the rotation entry replaced.
C6_SliceListReduction ==
    (pc = "out" /\ lastOp = "get_dark_flat_slice_list")
        => LET pv == preview[1]
               n == Len(pv)
               kept == SortedSeq({axes.rot, axes.detX, axes.detY})
               Entry(d) == IF d = axes.rot THEN SliceAll ELSE pv[d + 1]
           IN  /\ result.kind = "ret"
               /\ IF n > 3
                  THEN result.val = [j \in 1..3 |-> Entry(kept[j])]
                  ELSE result.val = [d \in 1..n |-> Entry(d - 1)]
               /\ (n = 5 /\ axes.rot = 0 /\ {axes.detX, axes.detY} = {2, 3})
                      => result.val = <<SliceAll, pv[3], pv[4]>>

C6_Witness ==
    /\ pc = "out"
    /\ lastOp = "get_dark_flat_slice_list"
    /\ Len(preview[1]) = 5
    /\ axes = [rot |-> 0, detX |-> 2, detY |-> 3]
    /\ preview[1][2] # preview[1][3]
    /\ result.val = <<SliceAll, preview[1][3], preview[1][4]>>

\* C7: the runs _get_start_end_idx returns for a non-empty strictly
\* increasing sequence are contiguous, maximal, ordered, cover every input
\* position exactly once, and carry the position values at their ends.
C7_RunSegmentation ==
    (pc = "out" /\ lastOp = "_get_start_end_idx" /\ Len(arg) > 0)
        => /\ result.kind = "ret"
           /\ LET r == result.val
                  n == Len(r.start)
              IN  /\ n >= 1
                  /\ Len(r.end) = n
                  /\ Len(r.start_entry) = n
                  /\ Len(r.end_entry) = n
                  /\ r.start[1] = 0
                  /\ r.end[n] = Len(arg) - 1
                  /\ \A j \in 1..n :
                        /\ r.start[j] <= r.end[j]
                        /\ r.start_entry[j] = arg[r.start[j] + 1]
                        /\ r.end_entry[j] = arg[r.end[j] + 1]
                        /\ \A i \in r.start[j]..(r.end[j] - 1) :
                              arg[i + 2] - arg[i + 1] = 1
                  /\ \A j \in 1..(n - 1) :
                        /\ r.start[j + 1] = r.end[j] + 1
                        /\ arg[r.start[j + 1] + 1] - arg[r.end[j] + 1] > 1
                  /\ (arg[Len(arg)] - arg[1] = Len(arg) - 1) => n = 1
                  /\ (arg = <<0, 1, 2, 5, 6, 9>>)
                        => /\ r.start_entry = <<0, 5, 9>>
                           /\ r.end_entry = <<2, 6, 9>>

C7_Witness ==
    /\ pc = "out"
    /\ arg = <<0, 1, 2, 5, 6, 9>>
    /\ result.kind = "ret"
    /\ result.val.start = <<0, 3, 5>>
    /\ result.val.end = <<2, 4, 5>>
    /\ result.val.start_entry = <<0, 5, 9>>
    /\ result.val.end_entry = <<2, 6, 9>>

\* the reduced-index computation cannot succeed: no preview, no windowed
\* data frame, or no frame of the label before or after the window
ReducedIndexFails(k) ==
    \/ preview = Absent
    \/ k # 0 /\ ~BracketExists(k)

C9_Fallback ==
    (lastOp = "get_index" /\ ~arg.full)
        => /\ result.kind = "ret"
           /\ ReducedIndexFails(arg.key)
                  => result.val = SortedSeq(Labelled(image_key[1], arg.key))

\* C9: get_index(label, full=False) never reports an error; when the preview
\* is absent or the reduced-index computation fails the result is the full
\* index of the label; and the label array is left unchanged.
C9_SilentFallback ==
    [](C9_Fallback) /\ [][lastOp' = "get_index" => image_key' = image_key]_vars

C9_Witness ==
    /\ lastOp = "get_index"
    /\ ~arg.full
    /\ arg.key = 1
    /\ preview = Some(<<Slice(0, 1), SliceAll, SliceAll>>)
    /\ image_key = Some(<<0, 0, 1, 0, 1>>)
    /\ ReducedIndexFails(1)
    /\ result = Ret(<<2, 4>>)

(***************************************************************************)
(* Properties of the views.                                                *)
(***************************************************************************)
\* get_index(k, full=True) of the view
FullIndex(k) == get_index(image_key, preview, k, TRUE).val

FlatOutcomes(s) ==
    IF variant = "ImageKey"
    THEN {ImageKey_flat_outcome(dark_flat_slice_list, s)}
    ELSE {o.res : o \in
             NoImageKey_flat_outcomes(image_key, dark_flat_slice_list, s)}

DarkOutcomes(s) ==
    IF variant = "ImageKey"
    THEN {ImageKey_dark_outcome(dark_flat_slice_list, s)}
    ELSE {o.res : o \in
             NoImageKey_dark_outcomes(image_key, dark_flat_slice_list, s)}

C4_State ==
    /\ (lastOp = "flat" /\ flat_updated = Absent)
           => result \in {Times(o, fscale) : o \in FlatOutcomes(1)}
    /\ (lastOp = "dark" /\ dark_updated = Absent)
           => result \in {Times(o, dscale) : o \in DarkOutcomes(1)}
    /\ (lastOp = "flat" /\ flat_updated # Absent) => result = Ret(flat_updated[1])
    /\ (lastOp = "dark" /\ dark_updated # Absent) => result = Ret(dark_updated[1])

C4_Step ==
    /\ lastOp' = "set_dark_scale" => FlatOutcomes(fscale)' = FlatOutcomes(fscale)
    /\ lastOp' = "set_flat_scale" => DarkOutcomes(dscale)' = DarkOutcomes(dscale)
    /\ lastOp' = "update_flat" => fscale' = 1
    /\ lastOp' = "update_dark" => dscale' = 1

\* C4: without an override flat() is fscale times its value at scale 1 (and
\* dark() likewise with dscale); setting one scale leaves the other accessor's
\* result alone; update_flat(X) sets fscale to 1 and flat() then yields X
\* (update_dark likewise).
C4_ScaleAndUpdate == [](C4_State) /\ [][C4_Step]_vars

\* C5: in both views, once update_dark(F) (update_flat(F)) was called every
\* later dark() (flat()) returns F, and only an update call changes an
\* override.
C5_StickyOverride ==
    /\ [](/\ (lastOp = "dark" /\ dark_updated # Absent)
                 => result = Ret(dark_updated[1])
          /\ (lastOp = "flat" /\ flat_updated # Absent)
                 => result = Ret(flat_updated[1]))
    /\ [][/\ dark_updated' # dark_updated => lastOp' = "update_dark"
          /\ flat_updated' # flat_updated => lastOp' = "update_flat"]_vars

DataIndex == get_index(image_key, preview, 0, FALSE).val

\* C10: in the External-Reference view with a label-bearing reference,
\* after a dark() or flat() call has returned image_key is the label array
\* supplied at construction, and no dark() or flat() call changes
\* get_index(0).
C10_BorrowRestored ==
    /\ []((/\ variant = "NoImageKey"
           /\ lastOp \in {"dark", "flat"}
           /\ result.kind = "ret"
           /\ (dark_image_key # Absent \/ flat_image_key # Absent))
              => image_key = supplied)
    /\ [][(variant = "NoImageKey" /\ lastOp' \in {"dark", "flat"})
              => DataIndex' = DataIndex]_vars

====
